---- MODULE Spec2Model ----
(***************************************************************************)
(* sapf~ : the Max/MSP external that embeds the sapf interpreter           *)
(* (source/projects/sapf_tilde/sapf_tilde.cpp, final revision, lines       *)
(* 896-2489).                                                              *)
(*                                                                         *)
(* Two threads act on one t_sapf object:                                   *)
(*   - the control thread runs the message handlers (code, clear, float,   *)
(*     status, stack, dsp64) and sapf_new, which creates an object;        *)
(*     sapf_code is split at every access to a field the                   *)
(*     audio thread also touches,                                          *)
(*     so that every interleaving is explored;                             *)
(*   - the audio thread runs sapf_perform64 once per block, split at its   *)
(*     reads of hasValidAudio, numAudioChannels and audioExtractor and at  *)
(*     its write of hasValidAudio.                                         *)
(*                                                                         *)
(* The interpreter (Thread::compile, Fun::apply, ZIn::fill, the V          *)
(* predicates) is not part of this file's source; its results are          *)
(* enumerated: a program text is a sequence of words and each word has a   *)
(* fixed meaning (Compile, Pushes, Apply below), a pull returns any frame  *)
(* count, any done flag and any samples, or throws.                        *)
(* Memory allocation (strdup, std::string, std::vector) is assumed to      *)
(* succeed in the handlers; sapf_new is modelled with the failure of its   *)
(* try block as well. The debug lines that sapf_perform64 posts during    *)
(* its first three calls (debugCallCount, noAudioCallCount) are left out:  *)
(* the two counters decide nothing but those lines.                        *)
(***************************************************************************)
EXTENDS Integers, Sequences, FiniteSets, TLC

\* ------------------------------------------------------------------ bounds
\* largest sampleframes the host passes to one render block
MaxFrames == 2
\* largest number of output vectors the host passes to one render block
MaxOuts == 2
\* number of recompiling submissions explored (caps audioStateVersion too)
MaxSubmits == 3
\* the same where render blocks of every shape run beside the submissions
MaxSessionSubmits == 2
\* number of objects created in one process
MaxObjects == 3

\* ------------------------------------------------------- program constants
CODE_BUFFER_SIZE == 4096
\* ZIn audioExtractors[8]; std::min(size, 8)
MAX_CHANNELS == 8

\* sample values of the input signal, of the offset and of a pulled stream
SampleVals == {0, 1}

NoFun == << "null" >>
NoCode == << "nullptr" >>
NoValue == "empty"

\* ------------------------------------------------------------ interpreter
\* Words of the language that the explored programs are built from.
Words ==
  {"sineA", "sineB", "num", "nop", "pair", "mixed", "ten", "one", "oner",
   "fault", "faultx",
   "bad", "badfn", "badnull", "throw"}

\* Thread::compile(code, fn, true): what it returns for a program text.
\*   "ok"      returns true with a function
\*   "false0"  returns false, function left null
\*   "falsefn" returns false, function non-null
\*   "null"    returns true, function null
\*   "throw"   throws std::exception
Compile(code) ==
  IF \E i \in 1..Len(code) : code[i] = "throw" THEN "throw"
  ELSE IF \E i \in 1..Len(code) : code[i] = "bad" THEN "false0"
  ELSE IF \E i \in 1..Len(code) : code[i] = "badfn" THEN "falsefn"
  ELSE IF \E i \in 1..Len(code) : code[i] = "badnull" THEN "null"
  ELSE "ok"

\* Fun::apply: the value a word pushes ("" when it pushes nothing).
Pushes(word) ==
  CASE word = "sineA" -> << "zA" >>
    [] word = "sineB" -> << "zB" >>
    [] word = "num"   -> << "real" >>
    [] word = "pair"  -> << "pairAB" >>
    [] word = "mixed" -> << "mixedAR" >>
    [] word = "ten"   -> << "tenZ" >>
    [] word = "one"   -> << "oneA" >>
    [] word = "oner"  -> << "oneR" >>
    [] OTHER          -> << >>

RECURSIVE Apply(_, _)
\* Fun::apply(thread): the function compiled from `fn` run on stack `stk`;
\* the result is the new stack and what a word threw: "none", "std" (an
\* exception derived from std::exception) or "other" (any other type, such
\* as an integer error code).
Apply(fn, stk) ==
  IF fn = << >> THEN [fault |-> "none", stack |-> stk]
  ELSE IF Head(fn) = "fault" THEN [fault |-> "std", stack |-> stk]
  ELSE IF Head(fn) = "faultx" THEN [fault |-> "other", stack |-> stk]
  ELSE Apply(Tail(fn), stk \o Pushes(Head(fn)))

\* V predicates and Object::TypeName as the interpreter reports them.
isReal(v) == v = "real"
isObject(v) == ~isReal(v)
TypeName(v) ==
  CASE v \in {"zA", "zB", "zC"} -> "ZList"
    [] v \in {"pairAB", "mixedAR", "tenZ", "oneA", "oneR"} -> "List"
    [] OTHER -> "Real"
isZIn(v) == v \in {"zA", "zB", "zC"}
isList(v) == v \in {"zA", "zB", "zC", "pairAB", "mixedAR", "tenZ", "oneA", "oneR"}
isFinite(v) == v \in {"pairAB", "mixedAR", "tenZ", "oneA", "oneR"}
\* List::mArray of a finite list: its elements in order
mArray(v) ==
  CASE v = "pairAB" -> << "zA", "zB" >>
    [] v = "mixedAR" -> << "zA", "real" >>
    [] v = "oneA" -> << "zA" >>
    [] v = "oneR" -> << "real" >>
    [] v = "tenZ" -> << "zA", "zB", "zC", "zA", "zB", "zC", "zA", "zB", "zC", "zA" >>
    [] OTHER -> << >>

\* ------------------------------------------------------------- validation
\* char atomStr[256]: an atom's text is cut to 255 characters
ATOM_STR_SIZE == 256

\* strlen(atomStr) of an atom; "long" is a symbol of 255 or more characters
AtomLen(a) == IF a = "long" THEN ATOM_STR_SIZE - 1 ELSE IF a = "" THEN 0 ELSE 4

RECURSIVE JoinAtoms(_, _, _, _)
\* The loop of sapf_validateInput over argv[i..]: the joined text so far is
\* `buf` (a sequence of words, one per atom) and uses `bufferUsed` characters.
JoinAtoms(argv, i, buf, bufferUsed) ==
  IF i > Len(argv) THEN [success |-> TRUE, codeBuffer |-> buf]
  ELSE IF argv[i] = "nullsym" THEN [success |-> FALSE, codeBuffer |-> << >>]
  ELSE LET atomLen == AtomLen(argv[i])
           spaceNeeded == atomLen + (IF i > 1 THEN 1 ELSE 0) + 1
       IN IF bufferUsed + spaceNeeded > CODE_BUFFER_SIZE
          THEN [success |-> FALSE, codeBuffer |-> << >>]
          ELSE JoinAtoms(argv, i + 1, Append(buf, argv[i]),
                         bufferUsed + (IF i > 1 THEN 1 ELSE 0) + atomLen)

\* mutant: the text is cut at the last " play"
PlayPos_Last(buf) ==
  IF \E i \in 2..Len(buf) : buf[i] = "play"
  THEN CHOOSE i \in 2..Len(buf) :
         buf[i] = "play" /\ \A j \in (i + 1)..Len(buf) : buf[j] # "play"
  ELSE 0

\* strstr(codeBuffer, " play"): index of the first atom "play" that follows
\* a space, 0 when there is none
PlayPos(buf) ==
  IF \E i \in 2..Len(buf) : buf[i] = "play"
  THEN CHOOSE i \in 2..Len(buf) :
         buf[i] = "play" /\ \A j \in 2..(i - 1) : buf[j] # "play"
  ELSE 0

\* strlen(codeBuffer) == 0
EmptyText(buf) == \A i \in 1..Len(buf) : buf[i] = ""

\* sapf_validateInput: the joined text, cut at the first " play".
sapf_validateInput(argv) ==
  IF Len(argv) = 0 THEN [success |-> FALSE, codeBuffer |-> << >>]
  ELSE LET joined == JoinAtoms(argv, 1, << >>, 0)
           buf == joined.codeBuffer
       IN IF ~joined.success THEN joined
          ELSE IF EmptyText(buf) /\ Len(buf) = 1 THEN [success |-> FALSE, codeBuffer |-> << >>]
          ELSE IF \E i \in 1..Len(buf) : buf[i] = "play"
               THEN IF PlayPos(buf) > 0
                    THEN IF EmptyText(SubSeq(buf, 1, PlayPos(buf) - 1)) /\ PlayPos(buf) = 2
                         THEN [success |-> FALSE, codeBuffer |-> << >>]
                         ELSE [success |-> TRUE,
                               codeBuffer |-> SubSeq(buf, 1, PlayPos(buf) - 1)]
                    ELSE [success |-> FALSE, codeBuffer |-> << >>]
               ELSE [success |-> TRUE, codeBuffer |-> buf]

\* The message argument lists explored.
Inputs ==
  { << w >> : w \in Words } \cup
  { << >>, << "play" >>, << "sineA", "play" >>, << "num", "sineA" >>,
    << "nullsym" >>, [i \in 1..17 |-> "long"] }

\* ------------------------------------------------------------------ state
VARIABLES
  offset,             \* x->offset
  compiledFunction,   \* x->compiledFunction (the text it was compiled from)
  lastSapfCode,       \* x->lastSapfCode
  audioExtractor,     \* x->audioExtractor: [v: bound value, by: submission]
  audioExtractors,    \* x->audioExtractors[8]
  numAudioChannels,   \* x->numAudioChannels
  hasValidAudio,      \* x->hasValidAudio
  audioStateVersion,  \* x->audioStateVersion
  compilationError,   \* x->compilationError
  errorMessage,       \* x->errorMessage
  currentSampleRate,  \* x->currentSampleRate
  sampleRateChanged,  \* x->sampleRateChanged
  stack,              \* the stack of x->sapfThread
  ctl,                \* control thread: position and locals of sapf_code
  aud,                \* audio thread: position and locals of sapf_perform64
  hist,               \* history: who wrote the shared fields, what ran before
  builtins,           \* the process: gSapfBuiltinsInitialized, the calls made
                      \* to each registration function, the objects created
  threads             \* x->sapfThread and x->audioThread: "valid" or "null"

vars ==
  << offset, compiledFunction, lastSapfCode, audioExtractor, audioExtractors,
     numAudioChannels, hasValidAudio, audioStateVersion, compilationError,
     errorMessage, currentSampleRate, sampleRateChanged, stack, ctl, aud, hist,
     builtins, threads >>

objCache == << compiledFunction, lastSapfCode >>
objError == << compilationError, errorMessage >>
objRate == << currentSampleRate, sampleRateChanged >>
objAudio == << audioExtractor, audioExtractors, numAudioChannels, audioStateVersion >>
objStreams == << audioExtractor, audioExtractors, audioStateVersion >>

\* sample rates the host may announce
Rates == {44100, 48000}

NoPrev ==
  [code |-> NoCode, outcome |-> "none", nCompile |-> 0, nApply |-> 0, by |-> "none"]

\* how the pull of the last render block ended: kind is "none" (no pull, or
\* a session was published since), "ret" (fill returned) or "threw"; short:
\* fewer frames than asked for; exh: fill reported done or gave no frame
NoPull == [kind |-> "none", short |-> FALSE, exh |-> FALSE]

\* the control thread outside any handler
CtlIdle ==
  [pc |-> "idle", codeBuffer |-> NoCode, needsRecompilation |-> FALSE,
   outcome |-> "none", success |-> FALSE, fn |-> NoFun, ops |-> << >>, seq |-> 0,
   processed |-> FALSE, msg |-> "", context |-> "", argv |-> << >>,
   nCompile |-> 0, nApply |-> 0,
   pre |-> [fn |-> NoFun, code |-> NoCode, hva |-> 0, nch |-> 0,
            ext |-> [v |-> NoValue, by |-> 0], ver |-> 0, stack |-> << >>]]

\* the audio thread outside sapf_perform64
AudIdle ==
  [pc |-> "idle", n |-> 0, numouts |-> 0, numins |-> 0, ins |-> << >>,
   localChannels |-> 0, fillSrc |-> [v |-> NoValue, by |-> 0], pulled |-> FALSE,
   flagBy |-> 0, chanBy |-> 0, startPub |-> 0, partial |-> FALSE,
   afterFail |-> FALSE, off |-> 0, outs |-> << >>,
   frameCount |-> 0, tempBuffer |-> << >>, threw |-> FALSE, prev |-> NoPull,
   context |-> "", effects |-> {}]

\* the registration functions, in the order initSapfBuiltins calls them
AddOps ==
  << "AddCoreOps", "AddMathOps", "AddStreamOps", "AddRandomOps", "AddUGenOps",
     "AddMidiOps", "AddSetOps" >>

AddOpsNames == { AddOps[i] : i \in 1..Len(AddOps) }

\* initSapfBuiltins: nothing when the flag is set; else the registration
\* functions are called in order until one throws (throwAt is its position,
\* 0 when none throws); the flag is set only when all of them returned, both
\* catch clauses only report
initSapfBuiltins(b, throwAt) ==
  IF b.initialized THEN b
  ELSE [b EXCEPT
          !.initialized = (throwAt = 0),
          !.calls = [f \in AddOpsNames |->
                       IF throwAt = 0 \/ (\E i \in 1..throwAt : AddOps[i] = f)
                       THEN @[f] + 1 ELSE @[f]]]

\* the fields of the object after the try block of sapf_new ran to its end
ObjectInit ==
  /\ offset = 0
  /\ compiledFunction = NoFun
  /\ lastSapfCode = NoCode
  /\ audioExtractor = [v |-> NoValue, by |-> 0]
  /\ audioExtractors = [i \in 1..MAX_CHANNELS |-> NoValue]
  /\ numAudioChannels = 0
  /\ hasValidAudio = 0
  /\ audioStateVersion = 0
  /\ compilationError = FALSE
  /\ errorMessage = ""
  /\ currentSampleRate = 44100
  /\ sampleRateChanged = TRUE
  /\ stack = << >>
  /\ ctl = CtlIdle
  /\ aud = AudIdle
  /\ hist = [hvaBy |-> 0, nchBy |-> 0, lastPub |-> 0, nSubmits |-> 0,
             prev |-> NoPrev, pull |-> NoPull]
  /\ threads = [sapfThread |-> "valid", audioThread |-> "valid"]

\* the process before its first object: the library is loaded, the flag is
\* false, no registration function was called. The object fields hold the
\* values the first object starts with.
InitProcess ==
  /\ ObjectInit
  /\ builtins = [initialized |-> FALSE, calls |-> [f \in AddOpsNames |-> 0],
                 objects |-> 0]

\* sapf_new, the successful path, in a process whose first sapf_new it is
Init ==
  /\ ObjectInit
  /\ builtins = initSapfBuiltins(
                  [initialized |-> FALSE, calls |-> [f \in AddOpsNames |-> 0],
                   objects |-> 1], 0)

\* sapf_new creates one more object: initSapfBuiltins, the two interpreter
\* contexts, the prelude (its errors are caught and reported), the fields.
\* vmThrows: `new Thread()` throws; the catch deletes what was created and
\* sets the error state, the sample-rate fields stay as object_alloc left
\* them (cleared)
sapf_new(throwAt, vmThrows) ==
  /\ ctl.pc = "idle"
  /\ builtins.objects < MaxObjects
  /\ builtins' = [initSapfBuiltins(builtins, throwAt) EXCEPT !.objects = @ + 1]
  /\ offset' = 0
  /\ compiledFunction' = NoFun
  /\ lastSapfCode' = NoCode
  /\ audioExtractor' = [v |-> NoValue, by |-> 0]
  /\ audioExtractors' = [i \in 1..MAX_CHANNELS |-> NoValue]
  /\ numAudioChannels' = 0
  /\ hasValidAudio' = 0
  /\ audioStateVersion' = 0
  /\ compilationError' = vmThrows
  /\ errorMessage' = IF vmThrows THEN "VM initialization failed" ELSE ""
  /\ currentSampleRate' = IF vmThrows THEN 0 ELSE 44100
  /\ sampleRateChanged' = ~vmThrows
  /\ threads' = IF vmThrows
                THEN [sapfThread |-> "null", audioThread |-> "null"]
                ELSE [sapfThread |-> "valid", audioThread |-> "valid"]
  /\ stack' = << >>
  /\ ctl' = CtlIdle
  /\ aud' = AudIdle
  /\ hist' = [hvaBy |-> 0, nchBy |-> 0, lastPub |-> 0, nSubmits |-> 0,
              prev |-> NoPrev, pull |-> NoPull]

\* ------------------------------------------- sapf_code: the control thread
\* mutant: the cached text is never recognised
NeedsRecompilation_Always(codeBuffer, last) == TRUE

\* bool needsRecompilation = true;
\* if (x->lastSapfCode) needsRecompilation = (codeBuffer != lastSapfCode);
NeedsRecompilation(codeBuffer, last) ==
  IF last # NoCode THEN codeBuffer # last ELSE TRUE

\* the object as the handler found it
Snapshot ==
  [fn |-> compiledFunction, code |-> lastSapfCode, hva |-> hasValidAudio,
   nch |-> numAudioChannels, ext |-> audioExtractor, ver |-> audioStateVersion,
   stack |-> stack]

\* sapf_compileCode with needsRecompilation false: the cached result
CachedResult ==
  IF compilationError THEN [success |-> FALSE, fn |-> NoFun, outcome |-> "cachedError"]
  ELSE IF compiledFunction # NoFun
       THEN [success |-> TRUE, fn |-> compiledFunction, outcome |-> "cached"]
       ELSE [success |-> FALSE, fn |-> NoFun, outcome |-> "cachedNull"]

\* the checks sapf_validateInput makes before it looks at the atoms
ValidContext == threads.sapfThread # "null" /\ threads.audioThread # "null"

\* mutant: a rejected submission resets the error state
CodeRejected_ClearsError(argv) ==
  /\ ctl.pc = "idle"
  /\ ~ValidContext \/ ~sapf_validateInput(argv).success
  /\ ctl' = [CtlIdle EXCEPT !.pc = "ret", !.outcome = "rejected", !.argv = argv,
                            !.pre = Snapshot]
  /\ compilationError' = FALSE
  /\ errorMessage' = ""
  /\ UNCHANGED << offset, objCache, objAudio, hasValidAudio, objRate, builtins, threads,
                  stack, aud, hist >>

\* Phase 1 fails: error(...) and return, nothing else.
CodeRejected(argv) ==
  /\ ctl.pc = "idle"
  /\ ~ValidContext \/ ~sapf_validateInput(argv).success
  /\ ctl' = [CtlIdle EXCEPT !.pc = "ret", !.outcome = "rejected", !.argv = argv,
                            !.pre = Snapshot]
  /\ UNCHANGED << offset, objCache, objAudio, hasValidAudio, objError, objRate, builtins, threads,
                  stack, aud, hist >>

\* mutant: a cache hit with a cached function raises the audio flag again
CodeCached_Restarts(argv) ==
  /\ ctl.pc = "idle"
  /\ ValidContext /\ sapf_validateInput(argv).success
  /\ LET codeBuffer == sapf_validateInput(argv).codeBuffer
         r == CachedResult
     IN /\ ~NeedsRecompilation(codeBuffer, lastSapfCode)
        /\ ctl' = [CtlIdle EXCEPT !.pc = "ret", !.codeBuffer = codeBuffer,
                                  !.argv = argv,
                                  !.outcome = r.outcome, !.success = r.success,
                                  !.fn = r.fn, !.pre = Snapshot]
        /\ hasValidAudio' = IF r.success THEN 1 ELSE hasValidAudio
  /\ UNCHANGED << offset, objCache, objAudio, objError, objRate, builtins, threads,
                  stack, aud, hist >>

\* Phase 1 succeeds and the text is the cached one: no compile, no execute.
CodeCached(argv) ==
  /\ ctl.pc = "idle"
  /\ ValidContext /\ sapf_validateInput(argv).success
  /\ LET codeBuffer == sapf_validateInput(argv).codeBuffer
         r == CachedResult
     IN /\ ~NeedsRecompilation(codeBuffer, lastSapfCode)
        /\ ctl' = [CtlIdle EXCEPT !.pc = "ret", !.codeBuffer = codeBuffer,
                                  !.argv = argv,
                                  !.outcome = r.outcome, !.success = r.success,
                                  !.fn = r.fn, !.pre = Snapshot]
  /\ UNCHANGED << offset, objCache, objAudio, hasValidAudio, objError, objRate, builtins, threads,
                  stack, aud, hist >>

\* Phase 1 succeeds and the text is new: sapf_compileCode starts by clearing
\* the error state and the audio flag.
CodeCompileBegin(argv, maxSubmits) ==
  /\ ctl.pc = "idle"
  /\ ValidContext /\ sapf_validateInput(argv).success
  /\ hist.nSubmits < maxSubmits
  /\ LET codeBuffer == sapf_validateInput(argv).codeBuffer
     IN /\ NeedsRecompilation(codeBuffer, lastSapfCode)
        /\ ctl' = [CtlIdle EXCEPT !.pc = "compile", !.codeBuffer = codeBuffer,
                                  !.needsRecompilation = TRUE, !.argv = argv,
                                  !.context = "sapfThread",
                                  !.seq = hist.nSubmits + 1, !.pre = Snapshot]
  /\ compilationError' = FALSE
  /\ errorMessage' = ""
  /\ hasValidAudio' = 0
  /\ hist' = [hist EXCEPT !.nSubmits = @ + 1]
  /\ UNCHANGED << offset, objCache, objAudio, objRate, builtins, threads, stack, aud >>

\* mutant: a successful compile stores the function but not its text
CompileSucceeded_KeepsText(code, newCompiledFunction) ==
  /\ compiledFunction' = newCompiledFunction
  /\ lastSapfCode' = lastSapfCode
  /\ ctl' = [ctl EXCEPT !.pc = "exec", !.fn = newCompiledFunction, !.success = TRUE,
                        !.nCompile = @ + 1]
  /\ UNCHANGED << hasValidAudio, numAudioChannels, objError >>

\* if (success && newCompiledFunction): store the function and the text
CompileSucceeded(code, newCompiledFunction) ==
  /\ compiledFunction' = newCompiledFunction
  /\ lastSapfCode' = code
  /\ ctl' = [ctl EXCEPT !.pc = "exec", !.fn = newCompiledFunction, !.success = TRUE,
                        !.nCompile = @ + 1]
  /\ UNCHANGED << hasValidAudio, numAudioChannels, objError >>

\* mutant: a failed compilation evicts the cache entry
CompileFailed_Evict(code, newCompiledFunction) ==
  /\ compilationError' = TRUE
  /\ hasValidAudio' = 0
  /\ errorMessage' = "Compilation failed"
  /\ compiledFunction' = NoFun
  /\ lastSapfCode' = NoCode
  /\ ctl' = [ctl EXCEPT !.pc = "ret", !.outcome = "compileFail", !.nCompile = @ + 1]
  /\ UNCHANGED numAudioChannels

\* mutant: a failed compilation also resets the channel count
CompileFailed_ZeroChannels(code, newCompiledFunction) ==
  /\ compilationError' = TRUE
  /\ hasValidAudio' = 0
  /\ numAudioChannels' = 0
  /\ errorMessage' = "Compilation failed"
  /\ ctl' = [ctl EXCEPT !.pc = "ret", !.outcome = "compileFail", !.nCompile = @ + 1]
  /\ UNCHANGED objCache

\* else: record the error, clear the audio flag, keep the cache entry
CompileFailed(code, newCompiledFunction) ==
  /\ compilationError' = TRUE
  /\ hasValidAudio' = 0
  /\ errorMessage' = IF newCompiledFunction = NoFun
                     THEN "Compilation failed: Function creation failed after parsing"
                     ELSE "Compilation failed: Parser returned false (syntax error)"
  /\ ctl' = [ctl EXCEPT !.pc = "ret", !.outcome = "compileFail", !.nCompile = @ + 1]
  /\ UNCHANGED << objCache, numAudioChannels >>

\* sapf_compileCode, the call of Thread::compile and what follows it
CompileStep ==
  /\ ctl.pc = "compile"
  /\ LET r == Compile(ctl.codeBuffer)
         \* an exception leaves success false and the function null
         success == r \in {"ok", "null"}
         newCompiledFunction == IF r \in {"ok", "falsefn"} THEN ctl.codeBuffer ELSE NoFun
     IN IF success /\ newCompiledFunction # NoFun
        THEN CompileSucceeded(ctl.codeBuffer, newCompiledFunction)
        ELSE CompileFailed(ctl.codeBuffer, newCompiledFunction)
  /\ UNCHANGED << offset, objStreams, objRate, builtins, threads, stack, aud, hist >>

\* ------------------------------------------------ result classification
\* The writes of a publish, in program order. Each one is a separate step of
\* the control thread.
OpSet(v) == [op |-> "set", v |-> v, i |-> 0]
OpSetN(i, v) == [op |-> "setN", v |-> v, i |-> i]
OpNch(k) == [op |-> "nch", v |-> NoValue, i |-> k]
OpVer == [op |-> "ver", v |-> NoValue, i |-> 0]
OpHva(b) == [op |-> "hva", v |-> NoValue, i |-> b]

\* mutant: the single-channel publish does not raise the flag
SingleChannelOps_NoFlag(v) == << OpSet(v), OpNch(1), OpVer >>

\* mutant: the single-channel publish raises the flag before it writes the
\* channel count
SingleChannelOps_FlagFirst(v) == << OpSet(v), OpHva(1), OpNch(1), OpVer >>

\* audioExtractor.set(v); numAudioChannels = 1; ATOMIC_INCREMENT; hasValidAudio = 1
SingleChannelOps(v) == << OpSet(v), OpNch(1), OpVer, OpHva(1) >>
\* the list branches: the same without the increment
ListSingleOps(v) == << OpSet(v), OpNch(1), OpHva(1) >>
\* hasValidAudio = 0; numAudioChannels = 0
NonAudioOps == << OpHva(0), OpNch(0) >>

\* isChannelAudio: an object whose TypeName is "ZList"
isChannelAudio(channelData) ==
  ~isReal(channelData) /\ isObject(channelData) /\ TypeName(channelData) = "ZList"

RECURSIVE ChannelOps(_, _, _)
\* the loop for (i = 0; i < numChannels; i++) of sapf_handleMultiChannelAudio:
\* one audioExtractors[i].set per audio element, stopping at the first element
\* that is not audio
ChannelOps(channels, i, numChannels) ==
  IF i > numChannels THEN << >>
  ELSE IF isChannelAudio(channels[i])
       THEN << OpSetN(i, channels[i]) >> \o ChannelOps(channels, i + 1, numChannels)
       ELSE << >>

Min(a, b) == IF a < b THEN a ELSE b

\* mutant: a list with an element that is not audio is a non-audio result
sapf_handleMultiChannelAudio_MixedNonAudio(v) ==
  IF isFinite(v)
  THEN LET channels == mArray(v)
           numChannels == Min(Len(channels), MAX_CHANNELS)
           sets == ChannelOps(channels, 1, numChannels)
       IN IF numChannels > 0 /\ Len(sets) = numChannels
          THEN [outcome |-> "multi", success |-> TRUE,
                msg |-> "N-channel audio result ready",
                ops |-> sets \o << OpNch(numChannels), OpHva(1) >>]
          ELSE [outcome |-> "fallback", success |-> FALSE,
                msg |-> "Code executed but result is not audio-compatible",
                ops |-> NonAudioOps]
  ELSE [outcome |-> "single", success |-> TRUE,
        msg |-> "Infinite list treated as single-channel audio",
        ops |-> ListSingleOps(v)]

\* sapf_handleMultiChannelAudio
sapf_handleMultiChannelAudio(v) ==
  IF isFinite(v)
  THEN LET channels == mArray(v)
           numChannels == Min(Len(channels), MAX_CHANNELS)
           sets == ChannelOps(channels, 1, numChannels)
           allAudioCompatible == Len(sets) = numChannels
       IN IF numChannels > 0
          THEN IF allAudioCompatible
               THEN [outcome |-> "multi", success |-> TRUE,
                     msg |-> "N-channel audio result ready",
                     ops |-> sets \o << OpNch(numChannels), OpHva(1) >>]
               ELSE [outcome |-> "fallback", success |-> TRUE,
                     msg |-> "List contains non-audio elements - using single channel fallback",
                     ops |-> sets \o << OpHva(0), OpSet(v), OpNch(1), OpHva(1) >>]
          ELSE [outcome |-> "emptyList", success |-> FALSE,
                msg |-> "Empty list - no audio channels", ops |-> << OpHva(0) >>]
  ELSE [outcome |-> "single", success |-> TRUE,
        msg |-> "Infinite list treated as single-channel audio",
        ops |-> ListSingleOps(v)]

\* const char* resultType of sapf_processAudioResult
ResultType(v) == IF isReal(v) THEN "Real" ELSE IF isObject(v) THEN TypeName(v) ELSE "Other"

\* mutant: a list of one element is classified as its element
sapf_processAudioResult_Unwrap(v) ==
  IF isZIn(v) \/ ResultType(v) \in {"VList", "ZList"}
  THEN [outcome |-> "single", success |-> TRUE,
        msg |-> "Single-channel audio result ready for playback",
        ops |-> SingleChannelOps(v)]
  ELSE IF isList(v) /\ isFinite(v) /\ Len(mArray(v)) > 1
       THEN sapf_handleMultiChannelAudio(v)
  ELSE IF isList(v) /\ isFinite(v) /\ Len(mArray(v)) = 1 /\ isZIn(mArray(v)[1])
       THEN [outcome |-> "single", success |-> TRUE,
             msg |-> "Single-channel audio result ready for playback",
             ops |-> SingleChannelOps(mArray(v)[1])]
  ELSE IF isList(v) /\ ~isFinite(v)
       THEN [outcome |-> "single", success |-> TRUE,
             msg |-> "Infinite list treated as single-channel audio",
             ops |-> ListSingleOps(v)]
  ELSE [outcome |-> "nonAudio", success |-> FALSE,
        msg |-> "Code executed but result is not audio-compatible",
        ops |-> NonAudioOps]

\* sapf_processAudioResult
sapf_processAudioResult(v) ==
  IF isZIn(v)
  THEN [outcome |-> "single", success |-> TRUE,
        msg |-> "Single-channel audio result ready for playback",
        ops |-> SingleChannelOps(v)]
  ELSE IF ResultType(v) \in {"VList", "ZList"}
       THEN [outcome |-> "single", success |-> TRUE,
             msg |-> "Single-channel audio result ready for playback",
             ops |-> SingleChannelOps(v)]
  ELSE IF isList(v)
       THEN IF isFinite(v)
            THEN IF Len(mArray(v)) > 1
                 THEN sapf_handleMultiChannelAudio(v)
                 ELSE [outcome |-> "single", success |-> TRUE,
                       msg |-> "Single-element list treated as single-channel audio",
                       ops |-> ListSingleOps(v)]
            ELSE [outcome |-> "single", success |-> TRUE,
                  msg |-> "Infinite list treated as single-channel audio",
                  ops |-> ListSingleOps(v)]
  ELSE [outcome |-> "nonAudio", success |-> FALSE,
        msg |-> "Code executed but result is not audio-compatible",
        ops |-> NonAudioOps]

\* ---------------------------------------------------------- sapf_executeCode
\* mutant: a fault also resets the channel count
ExecFault_ZeroChannels(stk) ==
  /\ stack' = stk
  /\ hasValidAudio' = 0
  /\ numAudioChannels' = 0
  /\ ctl' = [ctl EXCEPT !.pc = "ret", !.outcome = "fault", !.nApply = @ + 1]

\* catch (const std::exception&): result.errorMessage, hasValidAudio = 0
ExecFault(stk) ==
  /\ stack' = stk
  /\ hasValidAudio' = 0
  /\ ctl' = [ctl EXCEPT !.pc = "ret", !.outcome = "fault", !.nApply = @ + 1]
  /\ UNCHANGED numAudioChannels

\* postStackDepth == 0: "Code executed but produced no results on stack"
ExecEmpty(stk) ==
  /\ stack' = stk
  /\ ctl' = [ctl EXCEPT !.pc = "ret", !.outcome = "emptyStack", !.nApply = @ + 1]
  /\ UNCHANGED << hasValidAudio, numAudioChannels >>

\* postStackDepth > 0: the top value is read (not popped) and classified
ExecResult(stk) ==
  /\ stack' = stk
  /\ LET r == sapf_processAudioResult(stk[Len(stk)])
     IN ctl' = [ctl EXCEPT !.pc = "publish", !.outcome = r.outcome, !.ops = r.ops,
                           !.processed = r.success, !.msg = r.msg,
                           !.nApply = @ + 1]
  /\ UNCHANGED << hasValidAudio, numAudioChannels >>

\* apply threw something that is not a std::exception: the inner catch (...)
\* rethrows it, the outer handler does not match it and sapf_code has no
\* handler, so the exception leaves sapf_code
ExecEscaped(stk) ==
  /\ stack' = stk
  /\ ctl' = [ctl EXCEPT !.pc = "escaped", !.outcome = "escaped", !.nApply = @ + 1]
  /\ UNCHANGED << hasValidAudio, numAudioChannels >>

\* mutant: the program runs on the stack as it stands
ExecStep_KeepsStack ==
  /\ ctl.pc = "exec"
  /\ ctl.needsRecompilation /\ ctl.fn # NoFun
  /\ LET r == Apply(ctl.fn, stack)
     IN IF r.fault = "std" THEN ExecFault(r.stack)
        ELSE IF r.fault = "other" THEN ExecEscaped(r.stack)
        ELSE IF Len(r.stack) = 0 THEN ExecEmpty(r.stack)
        ELSE ExecResult(r.stack)
  /\ UNCHANGED << offset, objCache, objStreams, objError, objRate, builtins, threads, aud, hist >>

\* Phase 3: clearStack, compiledFunction->apply(*x->sapfThread)
ExecStep ==
  /\ ctl.pc = "exec"
  /\ ctl.needsRecompilation /\ ctl.fn # NoFun
  /\ LET r == Apply(ctl.fn, << >>)
     IN IF r.fault = "std" THEN ExecFault(r.stack)
        ELSE IF r.fault = "other" THEN ExecEscaped(r.stack)
        ELSE IF Len(r.stack) = 0 THEN ExecEmpty(r.stack)
        ELSE ExecResult(r.stack)
  /\ UNCHANGED << offset, objCache, objStreams, objError, objRate, builtins, threads, aud, hist >>

\* ------------------------------------------------------------- the publish
\* ZIn::set on an extractor that a pull is reading at the same time is a data
\* race: the pull may read the stream it started with or the new one.
RacedSource(new) ==
  IF aud.pc = "filling" THEN {aud.fillSrc, new} ELSE {aud.fillSrc}

\* mutant: the counter steps down
NextVersion_Decrement(v) == v - 1

\* ATOMIC_INCREMENT(&x->audioStateVersion)
NextVersion(v) == v + 1

\* one write of sapf_processAudioResult / sapf_handleMultiChannelAudio
PublishStep ==
  /\ ctl.pc = "publish"
  /\ ctl.ops # << >>
  /\ LET o == Head(ctl.ops)
         last == Len(ctl.ops) = 1
         new == [v |-> o.v, by |-> ctl.seq]
     IN /\ ctl' = [ctl EXCEPT !.ops = Tail(@), !.pc = IF last THEN "ret" ELSE @]
        /\ audioExtractor' = IF o.op = "set" THEN new ELSE audioExtractor
        /\ \E src \in (IF o.op = "set" THEN RacedSource(new) ELSE {aud.fillSrc}) :
             aud' = [aud EXCEPT !.fillSrc = src]
        /\ audioExtractors' =
             IF o.op = "setN" THEN [audioExtractors EXCEPT ![o.i] = o.v]
             ELSE audioExtractors
        /\ numAudioChannels' = IF o.op = "nch" THEN o.i ELSE numAudioChannels
        /\ audioStateVersion' =
             IF o.op = "ver" THEN NextVersion(audioStateVersion) ELSE audioStateVersion
        /\ hasValidAudio' = IF o.op = "hva" THEN o.i ELSE hasValidAudio
        /\ hist' = [hist EXCEPT
                      !.nchBy = IF o.op = "nch" THEN ctl.seq ELSE @,
                      !.hvaBy = IF o.op = "hva" /\ o.i = 1 THEN ctl.seq ELSE @,
                      !.lastPub = IF o.op = "hva" /\ o.i = 1 /\ last THEN ctl.seq ELSE @,
                      !.pull = IF o.op = "hva" /\ o.i = 1 THEN NoPull ELSE @]
  /\ UNCHANGED << offset, objCache, objError, objRate, builtins, threads, stack >>

\* Phase 5 (sapf_reportStatus posts a line) and the return to the host
CodeReturn ==
  /\ ctl.pc = "ret"
  /\ ctl' = CtlIdle
  /\ hist' = [hist EXCEPT !.prev =
                IF ctl.outcome = "rejected" THEN NoPrev
                ELSE [code |-> ctl.codeBuffer, outcome |-> ctl.outcome,
                      nCompile |-> ctl.nCompile, nApply |-> ctl.nApply,
                      by |-> "code"]]
  /\ UNCHANGED << offset, objCache, objAudio, hasValidAudio, objError, objRate, builtins, threads,
                  stack, aud >>

\* ------------------------------------------- sapf_perform64: the audio thread
Silence(n) == [i \in 1..n |-> 0]

\* mutant: the pass-through drops the offset
PassThrough_NoOffset(n, numouts, numins, ins, off) ==
  [chan \in 1..numouts |->
     IF chan = 1 /\ numins > 0 THEN [i \in 1..n |-> ins[i]] ELSE Silence(n)]

\* the else branch: the first input plus offset on the first output when the
\* host passes an input, silence on every other output
PassThrough(n, numouts, numins, ins, off) ==
  [chan \in 1..numouts |->
     IF chan = 1 /\ numins > 0 THEN [i \in 1..n |-> ins[i] + off] ELSE Silence(n)]

AllSilence(n, numouts) == [chan \in 1..numouts |-> Silence(n)]

\* mutant: only the first output gets the pulled frames
CopyFrames_FirstOnly(n, numouts, frameCount, tempBuffer) ==
  [chan \in 1..numouts |->
     [i \in 1..n |-> IF chan = 1 /\ i <= Min(frameCount, n) THEN tempBuffer[i] ELSE 0]]

\* mutant: the rest of a short block repeats the last pulled sample
CopyFrames_HoldLast(n, numouts, frameCount, tempBuffer) ==
  [chan \in 1..numouts |->
     [i \in 1..n |-> tempBuffer[Min(i, Min(frameCount, n))]]]

\* frameCount > 0: every output gets the pulled frames, then zeros
CopyFrames(n, numouts, frameCount, tempBuffer) ==
  [chan \in 1..numouts |->
     [i \in 1..n |-> IF i <= Min(frameCount, n) THEN tempBuffer[i] ELSE 0]]

\* the blocks the host may ask for
BlockArgs ==
  { [n |-> n, numouts |-> numouts, numins |-> 1, ins |-> ins] :
      n \in {MaxFrames}, numouts \in 1..MaxOuts, ins \in [1..MaxFrames -> SampleVals] }
  \cup
  { [n |-> n, numouts |-> numouts, numins |-> 0, ins |-> << >>] :
      n \in {MaxFrames}, numouts \in 1..MaxOuts }

\* did the last submission end in a compile failure or an execution fault,
\* with no submission running now
AfterFailure ==
  /\ ctl.pc = "idle"
  /\ hist.prev.outcome \in {"compileFail", "fault"}

\* if (x && x->hasValidAudio && x->audioThread)
AudioValid(flag) == flag # 0 /\ threads.audioThread # "null"

\* the entry of the block: the read of the flag
BlockStart(b) ==
  /\ aud.pc = "idle"
  /\ LET a == [AudIdle EXCEPT !.n = b.n, !.numouts = b.numouts, !.numins = b.numins,
                              !.ins = b.ins, !.startPub = hist.lastPub,
                              !.afterFail = AfterFailure, !.prev = hist.pull]
     IN IF AudioValid(hasValidAudio)
        THEN \* the input vectors are not read on this path
             aud' = [a EXCEPT !.pc = "readChannels", !.flagBy = hist.hvaBy,
                              !.numins = 0, !.ins = << >>]
        ELSE aud' = [a EXCEPT !.pc = "done", !.off = offset,
                              !.outs = PassThrough(b.n, b.numouts, b.numins, b.ins, offset)]
  /\ hist' = [hist EXCEPT !.pull = IF @.exh THEN @ ELSE NoPull]
  /\ UNCHANGED << offset, objCache, objAudio, hasValidAudio, objError, objRate, builtins, threads,
                  stack, ctl >>

\* int localChannels = x->numAudioChannels;
ReadChannels ==
  /\ aud.pc = "readChannels"
  /\ IF numAudioChannels >= 1
     THEN \* std::vector<float> tempBuffer(n) takes its storage from the heap
          aud' = [aud EXCEPT !.pc = "callFill", !.localChannels = numAudioChannels,
                             !.chanBy = hist.nchBy, !.effects = @ \cup {"alloc"}]
     ELSE aud' = [aud EXCEPT !.pc = "done", !.localChannels = numAudioChannels,
                             !.chanBy = hist.nchBy,
                             !.outs = AllSilence(aud.n, aud.numouts)]
  /\ UNCHANGED << offset, objCache, objAudio, hasValidAudio, objError, objRate, builtins, threads,
                  stack, ctl, hist >>

\* mutant: the pull waits while a publish is under way
FillBegin_Locked ==
  /\ aud.pc = "callFill"
  /\ ctl.pc # "publish"
  /\ aud' = [aud EXCEPT !.pc = "filling", !.fillSrc = audioExtractor]
  /\ UNCHANGED << offset, objCache, objAudio, hasValidAudio, objError, objRate, builtins, threads,
                  stack, ctl, hist >>

\* mutant: the pull runs in the context of the control path
FillBegin_OnSapfThread ==
  /\ aud.pc = "callFill"
  /\ aud' = [aud EXCEPT !.pc = "filling", !.fillSrc = audioExtractor,
                        !.context = "sapfThread"]
  /\ UNCHANGED << offset, objCache, objAudio, hasValidAudio, objError, objRate, builtins, threads,
                  stack, ctl, hist >>

\* x->audioExtractor.fill(*x->audioThread, ...) is entered: the pull reads
\* the extractor
FillBegin ==
  /\ aud.pc = "callFill"
  /\ aud' = [aud EXCEPT !.pc = "filling", !.fillSrc = audioExtractor,
                        !.context = "audioThread"]
  /\ UNCHANGED << offset, objCache, objAudio, hasValidAudio, objError, objRate, builtins, threads,
                  stack, ctl, hist >>

\* mutant: a pull that reports the end of its stream is not acted upon
FillReturned_NeverSpent(frameCount, isDone, tempBuffer) ==
  /\ aud' = [aud EXCEPT
               !.pulled = TRUE,
               !.partial = aud.fillSrc.by > hist.lastPub,
               !.frameCount = frameCount,
               !.tempBuffer = tempBuffer,
               !.outs = IF frameCount > 0
                        THEN CopyFrames(aud.n, aud.numouts, frameCount, tempBuffer)
                        ELSE AllSilence(aud.n, aud.numouts),
               !.pc = "done"]
  /\ hist' = [hist EXCEPT !.pull = [kind |-> "ret", short |-> frameCount < aud.n,
                                    exh |-> isDone \/ frameCount = 0]]

\* fill returned isDone with frameCount frames in tempBuffer
FillReturned(frameCount, isDone, tempBuffer) ==
  /\ aud' = [aud EXCEPT
               !.pulled = TRUE,
               !.partial = aud.fillSrc.by > hist.lastPub,
               !.frameCount = frameCount,
               !.tempBuffer = tempBuffer,
               !.outs = IF frameCount > 0
                        THEN CopyFrames(aud.n, aud.numouts, frameCount, tempBuffer)
                        ELSE AllSilence(aud.n, aud.numouts),
               !.pc = IF frameCount > 0 /\ ~isDone THEN "done" ELSE "invalidate"]
  /\ hist' = [hist EXCEPT !.pull = [kind |-> "ret", short |-> frameCount < aud.n,
                                    exh |-> isDone \/ frameCount = 0]]

\* fill threw. catch (const std::exception&) writes silence and leaves the
\* flag alone; an exception of any other type (`kind` = "other") matches no
\* handler and leaves sapf_perform64 with the outputs unwritten
FillThrew(kind) ==
  /\ aud' = IF kind = "std"
            THEN \* post("sapf~: Audio exception: %s", e.what())
                 [aud EXCEPT !.pc = "done", !.threw = TRUE,
                             !.effects = @ \cup {"log"},
                             !.outs = AllSilence(aud.n, aud.numouts)]
            ELSE [aud EXCEPT !.pc = "escaped", !.threw = TRUE]
  /\ hist' = [hist EXCEPT !.pull = [kind |-> "threw", short |-> FALSE, exh |-> FALSE]]

\* the end of the pull
FillEnd ==
  /\ aud.pc = "filling"
  /\ \/ \E frameCount \in 0..aud.n, isDone \in BOOLEAN :
          \E tempBuffer \in [1..frameCount -> SampleVals] :
             FillReturned(frameCount, isDone, tempBuffer)
     \/ \E kind \in {"std", "other"} : FillThrew(kind)
  /\ UNCHANGED << offset, objCache, objAudio, hasValidAudio, objError, objRate, builtins, threads,
                  stack, ctl >>

\* mutant: the end of the stream is noticed but the flag is left set
Invalidate_KeepsFlag ==
  /\ aud.pc = "invalidate"
  /\ aud' = [aud EXCEPT !.pc = "done"]
  /\ UNCHANGED << offset, objCache, objAudio, hasValidAudio, objError, objRate, builtins, threads,
                  stack, ctl, hist >>

\* mutant: the end of the stream also resets the channel count
Invalidate_ZeroChannels ==
  /\ aud.pc = "invalidate"
  /\ hasValidAudio' = 0
  /\ numAudioChannels' = 0
  /\ aud' = [aud EXCEPT !.pc = "done"]
  /\ UNCHANGED << offset, objCache, audioExtractor, audioExtractors,
                  audioStateVersion, objError, objRate, builtins, threads, stack, ctl, hist >>

\* x->hasValidAudio = 0 (stream ended, or no frames)
Invalidate ==
  /\ aud.pc = "invalidate"
  /\ hasValidAudio' = 0
  /\ aud' = [aud EXCEPT !.pc = "done"]
  /\ UNCHANGED << offset, objCache, objAudio, objError, objRate, builtins, threads, stack, ctl, hist >>

\* the block returns to the host; its arguments and buffers end with the call
BlockReturn ==
  /\ aud.pc = "done"
  /\ aud' = AudIdle
  /\ UNCHANGED << offset, objCache, objAudio, hasValidAudio, objError, objRate, builtins, threads,
                  stack, ctl, hist >>

\* ------------------------------------------------------ the other handlers
\* sapf_float
sapf_float(f) ==
  /\ ctl.pc = "idle"
  /\ offset' = f
  /\ hist' = [hist EXCEPT !.prev = NoPrev]
  /\ UNCHANGED << objCache, objAudio, hasValidAudio, objError, objRate, builtins, threads, stack, ctl, aud >>

\* mutant: the report resets the error state
sapf_status_ClearsError ==
  /\ ctl.pc = "idle"
  /\ hist' = [hist EXCEPT !.prev = [NoPrev EXCEPT !.by = "status"]]
  /\ compilationError' = FALSE
  /\ errorMessage' = ""
  /\ UNCHANGED << offset, objCache, objAudio, hasValidAudio, objRate, builtins, threads, stack, ctl, aud >>

\* sapf_status: posts the report, writes nothing
sapf_status ==
  /\ ctl.pc = "idle"
  /\ hist' = [hist EXCEPT !.prev = [NoPrev EXCEPT !.by = "status"]]
  /\ UNCHANGED << offset, objCache, objAudio, hasValidAudio, objError, objRate, builtins, threads,
                  stack, ctl, aud >>

\* mutant: printing the stack consumes its top value
sapf_stack_Pops ==
  /\ ctl.pc = "idle"
  /\ hist' = [hist EXCEPT !.prev = [NoPrev EXCEPT !.by = "stack"]]
  /\ stack' = IF Len(stack) = 0 THEN stack ELSE SubSeq(stack, 1, Len(stack) - 1)
  /\ UNCHANGED << offset, objCache, objAudio, hasValidAudio, objError, objRate, builtins, threads,
                  ctl, aud >>

\* sapf_stack: stackDepth and printStack on sapfThread; an exception of
\* printStack is caught and reported
sapf_stack ==
  /\ ctl.pc = "idle"
  /\ hist' = [hist EXCEPT !.prev = [NoPrev EXCEPT !.by = "stack"]]
  /\ UNCHANGED << offset, objCache, objAudio, hasValidAudio, objError, objRate, builtins, threads,
                  stack, ctl, aud >>

\* mutant: clear empties the stack and leaves the flag alone
sapf_clear_KeepsFlag(throws) ==
  /\ ctl.pc = "idle"
  /\ IF threads.sapfThread = "null" \/ Len(stack) = 0 \/ throws
     THEN UNCHANGED << stack, hasValidAudio >>
     ELSE stack' = << >> /\ UNCHANGED hasValidAudio
  /\ hist' = [hist EXCEPT !.prev = NoPrev]
  /\ UNCHANGED << offset, objCache, objAudio, objError, objRate, builtins, threads, ctl, aud >>

\* sapf_clear: clearStack and hasValidAudio = 0 unless the stack is empty
\* already or clearStack throws
sapf_clear(throws) ==
  /\ ctl.pc = "idle"
  /\ IF threads.sapfThread = "null" \/ Len(stack) = 0 \/ throws
     THEN UNCHANGED << stack, hasValidAudio >>
     ELSE stack' = << >> /\ hasValidAudio' = 0
  /\ hist' = [hist EXCEPT !.prev = NoPrev]
  /\ UNCHANGED << offset, objCache, objAudio, objError, objRate, builtins, threads, ctl, aud >>

\* sapf_dsp64: vm.setSampleRate(samplerate) when the rate changed;
\* `result` is "ok", "exception" (std::exception) or "unknown" (anything else)
sapf_dsp64(samplerate, result) ==
  /\ ctl.pc = "idle"
  /\ currentSampleRate' = samplerate
  /\ IF currentSampleRate # samplerate \/ sampleRateChanged
     THEN CASE result = "ok" ->
                 /\ sampleRateChanged' = FALSE
                 /\ UNCHANGED objError
            [] result = "exception" ->
                 /\ sampleRateChanged' = TRUE
                 /\ compilationError' = TRUE
                 /\ errorMessage' = "VM sample rate config failed"
            [] OTHER ->
                 /\ sampleRateChanged' = TRUE
                 /\ UNCHANGED objError
     ELSE UNCHANGED << sampleRateChanged, objError >>
  /\ hist' = [hist EXCEPT !.prev = NoPrev]
  /\ UNCHANGED << offset, objCache, objAudio, hasValidAudio, stack, ctl, aud,
                  builtins, threads >>

\* ------------------------------------------------------------ specification
\* the code message with an argument list of `inputs`
CodeSteps(inputs, maxSubmits) ==
  \/ \E argv \in inputs : CodeRejected(argv)
  \/ \E argv \in inputs : CodeCached(argv)
  \/ \E argv \in inputs : CodeCompileBegin(argv, maxSubmits)
  \/ CompileStep
  \/ ExecStep
  \/ PublishStep
  \/ CodeReturn

\* one render block with arguments of `blocks`
AudioSteps(blocks) ==
  \/ \E b \in blocks : BlockStart(b)
  \/ ReadChannels
  \/ FillBegin
  \/ FillEnd
  \/ Invalidate
  \/ BlockReturn

Float == \E f \in SampleVals : sapf_float(f)
Clear == \E throws \in BOOLEAN : sapf_clear(throws)
Dsp64 == \E r \in Rates, res \in {"ok", "exception", "unknown"} : sapf_dsp64(r, res)

\* Programs that publish, fail to compile, fault or leave no audio, rendered
\* by blocks of every shape.
SessionInputs ==
  { << >>, << "sineA" >>, << "num" >>, << "nop" >>, << "fault" >>, << "bad" >>,
    << "throw" >> }

Next ==
  CodeSteps(SessionInputs, MaxSessionSubmits) \/ Clear \/ Float \/ AudioSteps(BlockArgs)

Spec == Init /\ [][Next]_vars

\* The control thread alone, with every explored argument list. The audio
\* thread writes no field but hasValidAudio, which no cache decision reads.
NextCache ==
  CodeSteps(Inputs, MaxSubmits) \/ Clear \/ Dsp64 \/ sapf_status \/ sapf_stack

SpecCache == Init /\ [][NextCache]_vars

\* Two threads, two programs that each publish one stream.
RaceInputs == { << >>, << "sineA" >>, << "sineB" >> }

RaceBlocks == { [n |-> MaxFrames, numouts |-> 1, numins |-> 0, ins |-> << >>] }

NextRace == CodeSteps(RaceInputs, MaxSubmits) \/ AudioSteps(RaceBlocks)

SpecRace == Init /\ [][NextRace]_vars

\* object creations in one process, from the load of the library on
New == \E throwAt \in 0..Len(AddOps), vmThrows \in BOOLEAN : sapf_new(throwAt, vmThrows)

NextBuiltins == New

SpecBuiltins == InitProcess /\ [][NextBuiltins]_vars

\* Submissions that validation rejects or cuts at " play", objects whose
\* interpreter contexts could not be created, and the clear message.
ValidateInputs ==
  { << >>, << "sineA" >>, << "sineA", "play" >>, << "sineA", "play", "num" >>,
    << "sineA", "play", "play" >>, << "play" >>, << "play", "sineA" >>,
    << "", "play" >>, << "bad", "play" >>, << "bad", "play", "num" >>,
    << "nullsym" >>, [i \in 1..17 |-> "long"] }

NextValidate == New \/ CodeSteps(ValidateInputs, MaxSessionSubmits) \/ Clear

SpecValidate == Init /\ [][NextValidate]_vars

\* Two threads, a program that publishes one stream and one that publishes a
\* list of two.
FanoutInputs == { << >>, << "sineA" >>, << "pair" >> }

NextFanout == CodeSteps(FanoutInputs, MaxSubmits) \/ AudioSteps(RaceBlocks)

SpecFanout == Init /\ [][NextFanout]_vars

\* Two threads, programs that each advance the version counter and one that
\* does not, with the clear and status messages.
VersionInputs == { << >>, << "sineA" >>, << "sineB" >>, << "num" >> }

NextCounter ==
  CodeSteps(VersionInputs, MaxSubmits) \/ Clear \/ sapf_status \/ AudioSteps(RaceBlocks)

SpecVersion == Init /\ [][NextCounter]_vars

\* ------------------------------------------------------------------ claims
\* A render block has used the extractor once its pull has begun.
UsesExtractor == aud.pc = "filling" \/ aud.pulled

\* C1 (as claimed): the validity flag, the channel count and the extractor
\* that one render block uses were all written by the same submission's
\* publish.
C1_AtomicHandoff ==
  UsesExtractor =>
    /\ aud.flagBy = aud.chanBy
    /\ aud.chanBy = aud.fillSrc.by

\* C2 (as claimed): while a render block is between the start and the end of
\* its pull, no step writes the audio extractor.
C2_ExclusiveAccess ==
  [][aud.pc = "filling" => audioExtractor' = audioExtractor]_vars

\* C3 (as claimed): a render block that started after a publish had fully
\* completed pulls from a stream that this publish or a later, fully completed
\* one installed: never from an earlier publish's stream and never from a
\* stream whose publish was still under way when the pull ended.
C3_RendersLatestPublish ==
  (aud.pulled /\ aud.startPub > 0) =>
    /\ aud.fillSrc.by >= aud.startPub
    /\ ~aud.partial

\* the submission handler is about to return from an accepted submission
Returning == ctl.pc = "ret" /\ ctl.outcome # "rejected"

\* the handler that ran just before this one was an accepted submission
HasPrev == hist.prev.outcome # "none"

\* C4: when a text is submitted twice in a row (no other message between the
\* two) and the first submission compiled it successfully, the two
\* submissions together call compile once and apply once, and the second one
\* succeeds with the cached function, which is the one compiled from that text.
C4_IdempotentCache ==
  (/\ Returning
   /\ hist.prev.code = ctl.codeBuffer
   /\ hist.prev.nCompile = 1
   /\ hist.prev.outcome # "compileFail")
  =>
  /\ hist.prev.nCompile + ctl.nCompile = 1
  /\ hist.prev.nApply + ctl.nApply = 1
  /\ ctl.success
  /\ ctl.fn = compiledFunction
  /\ ctl.fn = ctl.codeBuffer

C4_Witness ==
  /\ Returning
  /\ hist.prev.code = ctl.codeBuffer
  /\ hist.prev.nCompile = 1
  /\ hist.prev.outcome = "single"
  /\ ctl.outcome = "cached"

\* C5 (as claimed): a submission whose text differs from the text of the
\* submission just before it, or whose preceding submission failed to
\* compile, calls the interpreter's compile step.
C5_CompileWhenChangedOrFailed ==
  (/\ Returning
   /\ HasPrev
   /\ \/ ctl.codeBuffer # hist.prev.code
      \/ hist.prev.outcome = "compileFail")
  => ctl.nCompile = 1

\* C6: when compile returns false, returns a null function or throws,
\* compiledFunction and lastSapfCode keep the values they had when the
\* submission arrived, compilationError is set and errorMessage is not empty.
C6_FailedCompileKeepsCache ==
  (Returning /\ ctl.outcome = "compileFail")
  =>
  /\ compiledFunction = ctl.pre.fn
  /\ lastSapfCode = ctl.pre.code
  /\ compilationError
  /\ errorMessage # ""

C6_Witness ==
  /\ Returning
  /\ ctl.outcome = "compileFail"
  /\ ctl.pre.fn # NoFun
  /\ Compile(ctl.codeBuffer) = "throw"

\* C7 (as claimed): a submission that fails to compile while an audio session
\* is active leaves hasValidAudio, numAudioChannels and the extractor as they
\* were.
C7_StaleButValid ==
  (Returning /\ ctl.outcome = "compileFail" /\ ctl.pre.hva = 1)
  =>
  /\ hasValidAudio = ctl.pre.hva
  /\ numAudioChannels = ctl.pre.nch
  /\ audioExtractor = ctl.pre.ext

\* C7 (amended): a submission that fails to compile leaves numAudioChannels
\* and the extractor as they were but clears hasValidAudio; the flag stays
\* clear after the handler has returned, and a render block that starts then
\* pulls from no stream.
C7_FailedCompileClearsFlag ==
  /\ (Returning /\ ctl.outcome = "compileFail")
     =>
     /\ hasValidAudio = 0
     /\ numAudioChannels = ctl.pre.nch
     /\ audioExtractor = ctl.pre.ext
  /\ (AfterFailure /\ hist.prev.outcome = "compileFail") => hasValidAudio = 0
  /\ aud.afterFail => (~aud.pulled /\ aud.pc \in {"idle", "done"})

C7_Witness ==
  /\ Returning
  /\ ctl.outcome = "compileFail"
  /\ ctl.pre.hva = 1
  /\ ctl.pre.ext.v = "zA"
  /\ aud.pc = "done"
  /\ ~aud.pulled

\* C8 (as claimed): a render block that starts after a submission failed to
\* compile or faulted, and before any later submission, writes 0.0 to every
\* sample of every output.
C8_SilenceOnFailure ==
  (aud.pc = "done" /\ aud.afterFail)
  => \A chan \in 1..aud.numouts : \A i \in 1..aud.n : aud.outs[chan][i] = 0

\* C8 (amended): such a block pulls from no stream; it writes 0.0 to every
\* sample of every output except the first, and to the first output it writes
\* the first input plus offset when the host passes an input, 0.0 otherwise.
C8_PassThroughOnFailure ==
  (aud.pc = "done" /\ aud.afterFail)
  =>
  /\ ~aud.pulled
  /\ \A chan \in 1..aud.numouts : \A i \in 1..aud.n :
       aud.outs[chan][i] =
         IF chan = 1 /\ aud.numins > 0 THEN aud.ins[i] + aud.off ELSE 0

C8_Witness ==
  /\ aud.pc = "done"
  /\ aud.afterFail
  /\ hist.prev.outcome = "fault"
  /\ aud.numouts = MaxOuts
  /\ aud.numins > 0
  /\ aud.off = 1
  /\ aud.outs[1][1] = 2

\* C9 (as claimed): after a submission whose execution leaves an empty stack,
\* leaves a non-audio top value or faults, numAudioChannels = 0 and
\* hasValidAudio = 0.
C9_NonAudioClearsSession ==
  (Returning /\ ctl.outcome \in {"emptyStack", "nonAudio", "fault"})
  =>
  /\ numAudioChannels = 0
  /\ hasValidAudio = 0

\* C10 (as claimed): a fault during the execution of a newly compiled program
\* leaves hasValidAudio, numAudioChannels and the extractor as they were.
C10_FaultKeepsSession ==
  (Returning /\ ctl.outcome = "fault")
  =>
  /\ hasValidAudio = ctl.pre.hva
  /\ numAudioChannels = ctl.pre.nch
  /\ audioExtractor = ctl.pre.ext

\* C10 (amended): such a fault leaves numAudioChannels and the extractor as
\* they were and clears hasValidAudio.
C10_FaultClearsFlagOnly ==
  (Returning /\ ctl.outcome = "fault")
  =>
  /\ hasValidAudio = 0
  /\ numAudioChannels = ctl.pre.nch
  /\ audioExtractor = ctl.pre.ext

C10_Witness ==
  /\ Returning
  /\ ctl.outcome = "fault"
  /\ ctl.pre.hva = 1
  /\ ctl.pre.nch = 1

\* the streams the render block in progress has pulled from: sapf_perform64
\* calls fill once per block, on audioExtractor
PulledHandles == IF aud.pulled THEN {aud.fillSrc.v} ELSE {}

\* C11 (as claimed): a submission that leaves a finite list of K audio streams
\* (2 <= K <= 8) on top of the stack publishes channel count K with
\* audioExtractors[i] bound to element i, and a render block that pulls with
\* K >= 2 channels pulls from each of the K handles.
C11_FanOut ==
  /\ (Returning /\ ctl.outcome = "multi" /\ Len(mArray(stack[Len(stack)])) <= MAX_CHANNELS)
     =>
     /\ numAudioChannels = Len(mArray(stack[Len(stack)]))
     /\ \A i \in 1..numAudioChannels :
          audioExtractors[i] = mArray(stack[Len(stack)])[i]
  /\ (aud.pulled /\ aud.localChannels >= 2)
     => \A i \in 1..aud.localChannels : audioExtractors[i] \in PulledHandles

\* C12 (as claimed): every submission that executes its program (single
\* channel, multi-channel, single-channel fallback, empty list, empty stack,
\* non-audio value, fault) ends with audioStateVersion one above the value it
\* found.
C12_PublishIncrementsVersion ==
  (/\ Returning
   /\ ctl.outcome \in {"single", "multi", "fallback", "emptyList", "emptyStack",
                       "nonAudio", "fault"})
  => audioStateVersion = ctl.pre.ver + 1

\* C13: no step of a submission, of the clear or status message or of a render
\* block decreases audioStateVersion.
C13_VersionMonotonic ==
  [][audioStateVersion' >= audioStateVersion]_vars

C13_Witness ==
  /\ audioStateVersion = MaxSubmits
  /\ aud.pulled
  /\ hist.prev = NoPrev
  /\ stack = << >>

\* C14 (as claimed): a pull that returns fewer frames than asked for leaves
\* zeros in the rest of the block, and the block that follows it (no session
\* having been published in between) pulls nothing, whether the pull reported
\* done or not.
C14_ShortPullEndsSession ==
  /\ (aud.pulled /\ aud.pc \in {"invalidate", "done"})
     => \A chan \in 1..aud.numouts : \A i \in (aud.frameCount + 1)..aud.n :
          aud.outs[chan][i] = 0
  /\ (aud.prev.kind = "ret" /\ aud.prev.short)
     => (aud.pc = "done" /\ ~aud.pulled)

\* C14 (amended): a pull that returns fewer frames than asked for leaves zeros
\* in the rest of the block; the block that follows it pulls nothing when the
\* pull also reported done or returned no frame at all.
C14_ShortDonePullEndsSession ==
  /\ (aud.pulled /\ aud.pc \in {"invalidate", "done"})
     => \A chan \in 1..aud.numouts : \A i \in (aud.frameCount + 1)..aud.n :
          aud.outs[chan][i] = 0
  /\ (aud.prev.kind = "ret" /\ aud.prev.short /\ aud.prev.exh)
     => (aud.pc = "done" /\ ~aud.pulled)

C14_Witness ==
  /\ aud.prev.kind = "ret"
  /\ aud.prev.short
  /\ aud.prev.exh
  /\ aud.pc = "done"
  /\ aud.numouts = MaxOuts

\* C15: from the moment a pull has reported done or returned no frame, until a
\* submission publishes a session, hasValidAudio is 0 as soon as the block has
\* passed its write of the flag, and no block is at or inside a pull.
C15_SpentUntilPublish ==
  hist.pull.exh
  =>
  /\ aud.pc \in {"invalidate", "done", "idle"}
  /\ aud.pc # "invalidate" => hasValidAudio = 0

C15_Witness ==
  /\ hist.pull.exh
  /\ aud.pc = "done"
  /\ ~aud.pulled
  /\ ctl.pc = "exec"

\* C16 (as claimed): no exception leaves sapf_perform64; a block whose pull
\* threw ends with zeros on every output and hasValidAudio cleared; the block
\* that follows it pulls nothing.
C16_AudioFaultContained ==
  /\ aud.pc # "escaped"
  /\ (aud.threw /\ aud.pc = "done")
     =>
     /\ \A chan \in 1..aud.numouts : \A i \in 1..aud.n : aud.outs[chan][i] = 0
     /\ hasValidAudio = 0
  /\ aud.prev.kind = "threw" => (aud.pc = "done" /\ ~aud.pulled)

\* C17 (as claimed): no exception leaves sapf_code, whatever the interpreter
\* throws while compiling or executing, and a failed compilation leaves a
\* diagnostic.
C17_ControlFaultContained ==
  /\ ctl.pc # "escaped"
  /\ (Returning /\ ctl.outcome = "compileFail") => errorMessage # ""

\* the steps of a render block after its entry
AudioProgress == ReadChannels \/ FillBegin \/ FillEnd \/ Invalidate \/ BlockReturn

\* C18: whatever the control thread is doing, a render block that has started
\* and not ended can take its next step with the control thread standing
\* still, and a block can start.
C18_RendererNeverWaits ==
  /\ aud.pc \in {"readChannels", "callFill", "filling", "invalidate", "done"}
     => ENABLED (AudioProgress /\ ctl' = ctl)
  /\ aud.pc = "idle" => ENABLED (\E b \in BlockArgs : BlockStart(b))

C18_Witness ==
  /\ aud.pc = "callFill"
  /\ ctl.pc = "publish"
  /\ aud.numouts = MaxOuts

C20_OverflowTruncatesWithWarning ==
  (/\ Returning
   /\ ctl.nApply = 1
   /\ Len(stack) > 0
   /\ isFinite(stack[Len(stack)])
   /\ Len(mArray(stack[Len(stack)])) > MAX_CHANNELS
   /\ \A i \in 1..Len(mArray(stack[Len(stack)])) :
        isChannelAudio(mArray(stack[Len(stack)])[i]))
  =>
  /\ numAudioChannels = MAX_CHANNELS
  /\ hasValidAudio = 1
  /\ \A i \in 1..MAX_CHANNELS : audioExtractors[i] = mArray(stack[Len(stack)])[i]
  /\ ctl.processed
  /\ ctl.msg # "N-channel audio result ready"

C23_SilenceBeyondChannelCount ==
  aud.pc \in {"invalidate", "done"}
  =>
  \A chan \in (aud.localChannels + 1)..aud.numouts : \A i \in 1..aud.n :
    aud.outs[chan][i] = 0

\* C23 (amended): a block that pulled writes the same frames to every output,
\* whatever the channel count; a block that found valid audio but did not
\* pull, or whose pull threw, writes zeros everywhere; a block that found no
\* valid audio writes the first input plus offset to the first output when
\* there is an input, and zeros to the others.
C23_OutputsByPath ==
  aud.pc \in {"invalidate", "done"}
  =>
  \A chan \in 1..aud.numouts : \A i \in 1..aud.n :
    aud.outs[chan][i] =
      IF aud.pulled THEN aud.outs[1][i]
      ELSE IF chan = 1 /\ aud.numins > 0 THEN aud.ins[i] + aud.off
      ELSE 0

C23_Witness ==
  /\ aud.pc = "done"
  /\ aud.pulled
  /\ aud.localChannels = 1
  /\ aud.numouts = MaxOuts
  /\ aud.outs[MaxOuts][1] = 1

\* C24 (as claimed): executing a compiled program does not clear the stack:
\* the values that were on it before the execution are still on it
\* afterwards, below whatever the program pushed.
C24_ExecutionKeepsEarlierValues ==
  (Returning /\ ctl.nApply = 1)
  =>
  /\ Len(stack) >= Len(ctl.pre.stack)
  /\ SubSeq(stack, 1, Len(ctl.pre.stack)) = ctl.pre.stack

\* C24 (amended): the execution starts from an empty stack: when a submission
\* that ran its program returns, the stack holds exactly what the program
\* left when started on an empty stack; the value that was read as the result
\* is still its top.
C24_ExecutionStartsFromEmptyStack ==
  (Returning /\ ctl.nApply = 1)
  =>
  stack = Apply(ctl.fn, << >>).stack

C24_Witness ==
  /\ Returning
  /\ ctl.nApply = 1
  /\ ctl.pre.stack = << "real", "zA" >>
  /\ stack = << "zB" >>

\* C25: the values a program left stay on the stack: the stack changes only
\* in the execution step of a recompiling submission, which leaves what the
\* program left on an empty stack, or by clear, which empties it; a cache-hit
\* submission, a status message and a stack inspection leave it as it was.
C25_StackPreservedAfterExecution ==
  [][ /\ (stack' # stack)
         => \/ (ctl.pc = "exec" /\ ctl.needsRecompilation)
            \/ (ctl.pc = "idle" /\ ctl'.pc = "idle" /\ hist'.prev = NoPrev
                /\ stack' = << >>)
      /\ (ctl.pc = "exec" /\ ctl'.pc = "publish")
         => stack' = Apply(ctl.fn, << >>).stack
      /\ (ctl.pc = "idle" /\ ctl'.pc = "ret") => stack' = stack
      /\ (sapf_status \/ sapf_stack) => stack' = stack
    ]_vars

C25_Witness ==
  /\ hist.prev.by = "stack"
  /\ stack = << "real", "zA" >>
  /\ hasValidAudio = 1

\* C26 (as claimed): clear, issued in any reachable state, ends with no
\* compiled function, no cached source text, an empty stack, hasValidAudio = 0
\* and channel count 0.
C26_ClearResetsEverything ==
  [][ Clear => /\ compiledFunction' = NoFun
               /\ lastSapfCode' = NoCode
               /\ stack' = << >>
               /\ hasValidAudio' = 0
               /\ numAudioChannels' = 0 ]_vars

\* C27: a status message leaves compiledFunction, lastSapfCode,
\* compilationError, errorMessage, hasValidAudio, numAudioChannels,
\* audioStateVersion, the sample-rate fields and the stack unchanged.
C27_StatusIsPureRead ==
  [][ sapf_status
      => UNCHANGED << compiledFunction, lastSapfCode, compilationError,
                      errorMessage, hasValidAudio, numAudioChannels,
                      audioStateVersion, currentSampleRate, sampleRateChanged,
                      stack >> ]_vars

C27_Witness ==
  /\ hist.prev.by = "status"
  /\ compilationError
  /\ errorMessage # ""
  /\ Len(stack) > 0
  /\ compiledFunction # NoFun

\* C28: the render block runs the interpreter only in the context audioThread
\* and a submission only in the context sapfThread, so the two threads never
\* use the same context.
C28_SeparateInterpreterContexts ==
  /\ aud.context \in {"", "audioThread"}
  /\ ctl.context \in {"", "sapfThread"}
  /\ (aud.context # "" /\ ctl.context # "") => aud.context # ctl.context

C28_Witness ==
  /\ aud.pc = "filling"
  /\ aud.context = "audioThread"
  /\ ctl.pc = "exec"
  /\ ctl.context = "sapfThread"

\* C30 (as claimed): a render block performs no allocation from the
\* general-purpose heap and no blocking or logging call, on any of its paths.
C30_RenderPathRealTimeSafe ==
  aud.effects = {}

\* C29 (as claimed): across any number of object creations each registration
\* function is called at most once per process, also when one of them throws
\* during an initialisation attempt.
C29_BuiltinsRegisteredAtMostOnce ==
  \A f \in AddOpsNames : builtins.calls[f] <= 1

\* C31: a submission whose text equals the cached text changes nothing:
\* compiledFunction, lastSapfCode, compilationError, errorMessage,
\* hasValidAudio, numAudioChannels, audioStateVersion, the extractors and the
\* stack stay as they were, so audio that has ended or was cleared is not
\* restarted by it.
C31_CacheHitChangesNothing ==
  [][ (\E argv \in Inputs \cup ValidateInputs : CodeCached(argv))
      => UNCHANGED << compiledFunction, lastSapfCode, compilationError,
                      errorMessage, hasValidAudio, numAudioChannels,
                      audioStateVersion, audioExtractor, audioExtractors,
                      stack >> ]_vars

C31_Witness ==
  /\ Returning
  /\ ctl.outcome = "cached"
  /\ ctl.codeBuffer = << "sineA" >>
  /\ ctl.pre.hva = 0
  /\ hasValidAudio = 0
  /\ numAudioChannels = 1
  /\ stack = << >>

\* C32: when the pull of a render block produces f frames with 0 < f < N,
\* samples 0..f-1 of every output equal the pulled samples and samples f..N-1
\* are zero.
C32_PartialPullZeroFilled ==
  (/\ aud.pc \in {"invalidate", "done"}
   /\ aud.pulled
   /\ 0 < aud.frameCount
   /\ aud.frameCount < aud.n)
  =>
  \A chan \in 1..aud.numouts :
    /\ \A i \in 1..aud.frameCount : aud.outs[chan][i] = aud.tempBuffer[i]
    /\ \A i \in (aud.frameCount + 1)..aud.n : aud.outs[chan][i] = 0

C32_Witness ==
  /\ aud.pc = "done"
  /\ aud.pulled
  /\ aud.frameCount = 1
  /\ aud.n = MaxFrames
  /\ aud.numouts = MaxOuts
  /\ aud.tempBuffer = << 1 >>
  /\ aud.outs[MaxOuts] = << 1, 0 >>

\* C33 (as claimed): when a submission has published a new audio session and
\* a render block that pulled the previous session's stream has finished,
\* hasValidAudio is 1: the block's end-of-stream handling does not invalidate
\* the new session.
C33_PublishNotLost ==
  (/\ ctl.pc = "ret"
   /\ ctl.outcome = "single"
   /\ aud.pc = "done"
   /\ aud.pulled
   /\ aud.fillSrc.by < ctl.seq)
  =>
  hasValidAudio = 1

\* C34: in every state, the states between the writes of a publish included,
\* numAudioChannels is in 0..8 and hasValidAudio = 1 implies
\* 1 <= numAudioChannels <= 8.
C34_ChannelCountInvariant ==
  /\ numAudioChannels \in 0..MAX_CHANNELS
  /\ hasValidAudio = 1 => numAudioChannels \in 1..MAX_CHANNELS

C34_Witness ==
  /\ ctl.pc = "publish"
  /\ ctl.outcome = "single"
  /\ ctl.pre.nch = MAX_CHANNELS
  /\ ctl.pre.hva = 1
  /\ numAudioChannels = 1
  /\ hasValidAudio = 0

C36_AudioImpliesStack ==
  [][ /\ (ctl'.pc = "idle" /\ hasValidAudio' = 1) => Len(stack') >= 1
      /\ sapf_clear(FALSE) => (stack' = << >> /\ hasValidAudio' = 0) ]_vars

C36_Witness ==
  /\ ctl.pc = "idle"
  /\ compiledFunction = << "sineA" >>
  /\ numAudioChannels = 1
  /\ hist.pull.kind = "none"
  /\ stack = << >>
  /\ hasValidAudio = 0

\* C37: no step of a render block sets hasValidAudio to 1 or changes
\* numAudioChannels, audioStateVersion, compiledFunction, lastSapfCode,
\* compilationError or errorMessage: the only field of the object it writes
\* is hasValidAudio, and only to 0.
C37_AudioThreadOnlyClearsFlag ==
  [][ AudioSteps(BlockArgs)
      => /\ hasValidAudio' \in {hasValidAudio, 0}
         /\ UNCHANGED << numAudioChannels, audioStateVersion, compiledFunction,
                         lastSapfCode, compilationError, errorMessage >> ]_vars

C37_Witness ==
  /\ aud.pc = "done"
  /\ aud.pulled
  /\ aud.flagBy > 0
  /\ hist.pull.exh
  /\ hasValidAudio = 0
  /\ numAudioChannels = 1
  /\ audioStateVersion = 1
  /\ ctl.pc = "idle"

\* C38: a submission that validation rejects (no atoms, a null interpreter
\* context, an invalid symbol atom, a joined text longer than the code
\* buffer, a text that is only "play") changes no state of the object: the
\* cache, the error fields, the audio flag, the channel count, the version,
\* the extractors and the stack are as before, and neither compile nor apply
\* is called.
C38_RejectedChangesNothing ==
  [][ (\E argv \in Inputs \cup ValidateInputs : CodeRejected(argv))
      => /\ UNCHANGED << compiledFunction, lastSapfCode, compilationError,
                         errorMessage, hasValidAudio, numAudioChannels,
                         audioStateVersion, audioExtractor, audioExtractors,
                         stack >>
         /\ ctl'.nCompile = 0
         /\ ctl'.nApply = 0 ]_vars

C38_Witness ==
  /\ ctl.pc = "ret"
  /\ ctl.outcome = "rejected"
  /\ ctl.argv = << "play", "sineA" >>
  /\ ValidContext
  /\ hasValidAudio = 1
  /\ compiledFunction = << "sineA" >>
  /\ stack = << "zA" >>

\* C39 (as claimed): two submissions in a row whose joined texts agree up to
\* their first " play" are the same cache key: the second is a cache hit that
\* calls neither compile nor apply; the text of a submission is its joined
\* text cut at the first " play".
C39_PlayCutIsCacheKey ==
  Returning =>
    LET plays == { i \in 2..Len(ctl.argv) : ctl.argv[i] = "play" }
        cut == IF plays = {} THEN ctl.argv
               ELSE SubSeq(ctl.argv, 1,
                           (CHOOSE i \in plays : \A j \in plays : i <= j) - 1)
    IN /\ ctl.codeBuffer = cut
       /\ (HasPrev /\ hist.prev.code = cut)
          => (ctl.nCompile = 0 /\ ctl.nApply = 0)

\* C39 (amended): the same, for a second submission whose predecessor did
\* not fail to compile; and what a successful compile stores is the function
\* of the cut text.
C39_PlayCutIsCacheKeyAfterSuccess ==
  Returning =>
    LET plays == { i \in 2..Len(ctl.argv) : ctl.argv[i] = "play" }
        cut == IF plays = {} THEN ctl.argv
               ELSE SubSeq(ctl.argv, 1,
                           (CHOOSE i \in plays : \A j \in plays : i <= j) - 1)
    IN /\ ctl.codeBuffer = cut
       /\ (HasPrev /\ hist.prev.code = cut /\ hist.prev.outcome # "compileFail")
          => (ctl.nCompile = 0 /\ ctl.nApply = 0 /\ ~ctl.needsRecompilation)
       /\ (ctl.nCompile = 1 /\ ctl.outcome # "compileFail")
          => (compiledFunction = cut /\ lastSapfCode = cut)

C39_Witness ==
  /\ Returning
  /\ ctl.argv = << "sineA", "play", "num" >>
  /\ ctl.outcome = "cached"
  /\ hist.prev.code = << "sineA" >>
  /\ hist.prev.nCompile = 1
  /\ stack = << "zA" >>

\* C40 (as claimed): a failure to configure the sample rate in sapf_dsp64
\* does not change the outcome of later submissions: a resubmission of the
\* cached text after such a failure is a cache hit that succeeds with the
\* cached function.
C40_CacheIndependentOfSampleRate ==
  (/\ Returning
   /\ ~ctl.needsRecompilation
   /\ ctl.pre.fn # NoFun
   /\ errorMessage = "VM sample rate config failed")
  =>
  /\ ctl.success
  /\ ctl.outcome = "cached"
  /\ ctl.fn = ctl.pre.fn

====
